---- MODULE Spec2Model ----
(***************************************************************************)
(* Model of justaprankbro: src/src/cursor.rs (Cursor, ReplacedCursor,      *)
(* CursorKind) and src/src/main.rs (main, KeySequence).                    *)
(*                                                                         *)
(* The specifications share the definitions below:                         *)
(*   Spec        the program: main() from start to process exit;           *)
(*   SpecLive    Spec with the event loop's shutdown weakly fair;          *)
(*   SpecCursor  a client of the public API of the cursor module           *)
(*               (from_file, load_system, replace_system, revert, drop)    *)
(*               for any kind;                                             *)
(*   SpecKeySeq  KeySequence::process_input applied to bounded streams of  *)
(*               key codes over small target sequences.                    *)
(*                                                                         *)
(* The operating system is modelled by what the code's calls do to it:     *)
(* the system cursor table (one image per OCR_* id) and the table of live  *)
(* cursor handles.  Every OS call can report failure; the code's handling  *)
(* of the reported result is modelled as written.                          *)
(***************************************************************************)
EXTENDS Integers, Sequences, FiniteSets, TLC

VARIABLES
    pc,               \* position of the control flow
    table,            \* OS: system cursor table, OCR id -> image
    handles,          \* OS: live cursor handles, handle -> image
    nextHandle,       \* OS: next handle value handed out
    file_cursor,      \* Option<Cursor>: the Cursor made and not yet installed
    cursor,           \* Option<ReplacedCursor>: main's `cursor`
    unlock_sequence,  \* KeySequence {keys, idx}
    control_flow,     \* winit ControlFlow seen by the closure
    event,            \* kind of the last event delivered to the closure
    install,          \* observer: the replace_system call that returned
    reverts,          \* observer: result of SetSystemCursor in each revert()
    loaded,           \* observer: the call that made the Cursor, and its result
    calls             \* observer: the process_input calls made so far
                      \* (in Spec, where their number is unbounded: the last)

vars == <<pc, table, handles, nextHandle, file_cursor, cursor, unlock_sequence,
          control_flow, event, install, reverts, loaded, calls>>

osVars  == <<table, handles, nextHandle>>
keyVars == <<unlock_sequence, control_flow, event, calls>>

(***************************************************************************)
(* Bounds                                                                  *)
(***************************************************************************)
MaxInput   == 7    \* process_input calls recorded per run of SpecKeySeq
MaxReverts == 3    \* explicit revert() calls per run of SpecCursor

(***************************************************************************)
(* CursorKind and its OS identifiers                                       *)
(***************************************************************************)
OCR_NORMAL      == 32512
OCR_IBEAM       == 32513
OCR_WAIT        == 32514
OCR_CROSS       == 32515
OCR_UP          == 32516
OCR_SIZENWSE    == 32642
OCR_SIZENESW    == 32643
OCR_SIZEWE      == 32644
OCR_SIZENS      == 32645
OCR_SIZEALL     == 32646
OCR_NO          == 32648
OCR_HAND        == 32649
OCR_APPSTARTING == 32650

CursorKind ==
    {"AppStarting", "Normal", "Crosshair", "Hand", "Ibeam", "No", "SizeAll",
     "SizeNeSw", "SizeNs", "SizeNwSe", "SizeWe", "Up", "Wait"}

as_id(kind) ==
    CASE kind = "AppStarting" -> OCR_APPSTARTING
      [] kind = "Normal"      -> OCR_NORMAL
      [] kind = "Crosshair"   -> OCR_CROSS
      [] kind = "Hand"        -> OCR_HAND
      [] kind = "Ibeam"       -> OCR_IBEAM
      [] kind = "No"          -> OCR_NO
      [] kind = "SizeAll"     -> OCR_SIZEALL
      [] kind = "SizeNeSw"    -> OCR_SIZENESW
      [] kind = "SizeNs"      -> OCR_SIZENS
      [] kind = "SizeNwSe"    -> OCR_SIZENWSE
      [] kind = "SizeWe"      -> OCR_SIZEWE
      [] kind = "Up"          -> OCR_UP
      [] kind = "Wait"        -> OCR_WAIT

Ids == {as_id(k) : k \in CursorKind}

(***************************************************************************)
(* The operating system                                                    *)
(***************************************************************************)
\* The cursor scheme in force when the program starts: the images the
\* system table holds before any override.
Themes == {"stock", "scheme"}

SystemImage(theme, id) == [src |-> "system", name |-> theme, id |-> id]
FileImage(path)        == [src |-> "file", name |-> path, id |-> 0]

OS == [table |-> table, handles |-> handles, next |-> nextHandle]

\* A new live handle for `image`.
NewHandle(os, image) ==
    [os EXCEPT !.handles = [h \in DOMAIN os.handles \cup {os.next} |->
                               IF h = os.next THEN image ELSE os.handles[h]],
               !.next = os.next + 1]

\* SetSystemCursor(hcur, id): on success the slot takes the contents of hcur
\* and the system destroys hcur; on failure (the OS reports it, or hcur is not
\* a live cursor handle) nothing changes and the call returns FALSE.
SetSystemCursor(os, hcur, id, ok) ==
    IF ok /\ hcur \in DOMAIN os.handles /\ id \in Ids
    THEN [ret |-> TRUE,
          os  |-> [os EXCEPT !.table = [os.table EXCEPT ![id] = os.handles[hcur]],
                             !.handles = [h \in DOMAIN os.handles \ {hcur} |->
                                             os.handles[h]]]]
    ELSE [ret |-> FALSE, os |-> os]

(***************************************************************************)
(* cursor.rs: Cursor                                                       *)
(***************************************************************************)
None    == <<>>
Some(v) == <<v>>

\* The paths a client may pass to Cursor::from_file; main passes "normal.cur".
Paths == {"normal.cur", "other.cur"}

\* What LoadImageW reports for a file: a handle, a null handle with
\* ERROR_FILE_NOT_FOUND, or a null handle with another error code.
FileOutcomes == {"ok", "not_found", "error"}

\* Variant: every null handle panics, the not-found error code included.
from_file_panics_on_missing(os, path, outcome) ==
    IF outcome = "ok"
    THEN [result |-> "Ok", value |-> Some([handle |-> os.next]),
          os |-> NewHandle(os, FileImage(path))]
    ELSE [result |-> "panic", value |-> None, os |-> os]

\* Cursor::from_file(path): Ok(Cursor {handle}), Err(not found), or a panic.
from_file(os, path, outcome) ==
    IF outcome = "ok"
    THEN [result |-> "Ok", value |-> Some([handle |-> os.next]),
          os |-> NewHandle(os, FileImage(path))]
    ELSE IF outcome = "not_found"
    THEN [result |-> "Err", value |-> None, os |-> os]
    ELSE [result |-> "panic", value |-> None, os |-> os]

\* Cursor::load_system(kind): the shared handle of the system cursor for kind
\* (LoadImageW) is copied into a private handle (CopyImage); a null handle
\* from either call panics.
load_system(os, kind, loadOk, copyOk) ==
    IF ~loadOk THEN [result |-> "panic", value |-> None, os |-> os]
    ELSE IF ~copyOk THEN [result |-> "panic", value |-> None, os |-> os]
    ELSE [result |-> "Ok", value |-> Some([handle |-> os.next]),
          os |-> NewHandle(os, os.table[as_id(kind)])]

\* Variant: the copy of the slot is taken after the slot was overwritten.
replace_system_capture_late(os, self, kind, loadOk, copyOk, setOk) ==
    LET s == SetSystemCursor(os, self.handle, as_id(kind), setOk)
        c == load_system(s.os, kind, loadOk, copyOk) IN
    IF c.result = "panic"
    THEN [result |-> "panic", value |-> None, set |-> FALSE, os |-> c.os]
    ELSE [result |-> "Ok",
          value  |-> Some([cursor |-> c.value[1], kind |-> kind]),
          set    |-> s.ret,
          os     |-> c.os]

\* Variant: the handle written to the slot is the copy just made of it, not
\* self.handle.
replace_system_wrong_handle(os, self, kind, loadOk, copyOk, setOk) ==
    LET c == load_system(os, kind, loadOk, copyOk) IN
    IF c.result = "panic"
    THEN [result |-> "panic", value |-> None, set |-> FALSE, os |-> c.os]
    ELSE LET s == SetSystemCursor(c.os, c.value[1].handle, as_id(kind), setOk) IN
         [result |-> "Ok",
          value  |-> Some([cursor |-> c.value[1], kind |-> kind]),
          set    |-> s.ret,
          os     |-> s.os]

\* Cursor::replace_system(self, kind): `cursor` is the copy load_system made,
\* then self.handle is written to the slot; the result of SetSystemCursor is
\* not looked at.  `set` is what the OS call returned (observer only).
replace_system(os, self, kind, loadOk, copyOk, setOk) ==
    LET c == load_system(os, kind, loadOk, copyOk) IN
    IF c.result = "panic"
    THEN [result |-> "panic", value |-> None, set |-> FALSE, os |-> c.os]
    ELSE LET s == SetSystemCursor(c.os, self.handle, as_id(kind), setOk) IN
         [result |-> "Ok",
          value  |-> Some([cursor |-> c.value[1], kind |-> kind]),
          set    |-> s.ret,
          os     |-> s.os]

(***************************************************************************)
(* cursor.rs: ReplacedCursor                                               *)
(***************************************************************************)
\* Variant: revert() swaps: it keeps a copy of what the slot holds now in
\* place of the handle it writes back.
revert_swap(os, self, setOk) ==
    LET c == load_system(os, self.kind, TRUE, TRUE)
        s == SetSystemCursor(c.os, self.cursor.handle, as_id(self.kind), setOk) IN
    [ret |-> s.ret, os |-> s.os, self |-> [self EXCEPT !.cursor = c.value[1]]]

\* Variant: the slot written back is always the normal pointer's.
revert_normal_slot(os, self, setOk) ==
    LET s == SetSystemCursor(os, self.cursor.handle, OCR_NORMAL, setOk) IN
    [ret |-> s.ret, os |-> s.os, self |-> self]

\* ReplacedCursor::revert(&self): writes self.cursor.handle to the slot of
\* self.kind; the result of SetSystemCursor is not looked at, and self is
\* borrowed immutably, so it is as before.
revert(os, self, setOk) ==
    LET s == SetSystemCursor(os, self.cursor.handle, as_id(self.kind), setOk) IN
    [ret |-> s.ret, os |-> s.os, self |-> self]

\* Variant: ReplacedCursor without a Drop implementation.
drop_without_revert(os, self, setOk) == [rets |-> << >>, os |-> os]

\* Drop for ReplacedCursor: drop() calls revert() once.  `rets` lists what
\* each revert() call made by the drop got from the OS.
drop(os, self, setOk) ==
    LET r == revert(os, self, setOk) IN [rets |-> <<r.ret>>, os |-> r.os]

(***************************************************************************)
(* main.rs: KeySequence                                                    *)
(***************************************************************************)
\* Key codes are winit VirtualKeyCode names.  keys is 1-based here and
\* 0-based in the code: the code's keys[idx] is keys[idx + 1].
DefaultKeys == <<"J", "U", "S", "T", "A", "P", "R", "A", "N", "K", "B", "R", "O">>

\* Default for KeySequence
KeySequence_default == [keys |-> DefaultKeys, idx |-> 0]

\* Variant: a mismatch leaves the index where it is.
process_input_keep(self, keycode) ==
    IF self.keys[self.idx + 1] = keycode
    THEN IF self.idx = Len(self.keys) - 1
         THEN [self |-> self, ret |-> TRUE]
         ELSE [self |-> [self EXCEPT !.idx = self.idx + 1], ret |-> FALSE]
    ELSE [self |-> self, ret |-> FALSE]

\* Variant: a mismatching key code that equals keys[0] restarts at index 1.
process_input_rescan(self, keycode) ==
    IF self.keys[self.idx + 1] = keycode
    THEN IF self.idx = Len(self.keys) - 1
         THEN [self |-> self, ret |-> TRUE]
         ELSE [self |-> [self EXCEPT !.idx = self.idx + 1], ret |-> FALSE]
    ELSE [self |-> [self EXCEPT !.idx = IF keycode = self.keys[1] THEN 1 ELSE 0],
          ret |-> FALSE]

\* Variant: the index is compared with the last position after it was
\* incremented, so the full match is reported one key early.
process_input_early(self, keycode) ==
    IF self.keys[self.idx + 1] = keycode
    THEN IF self.idx + 1 >= Len(self.keys) - 1
         THEN [self |-> self, ret |-> TRUE]
         ELSE [self |-> [self EXCEPT !.idx = self.idx + 1], ret |-> FALSE]
    ELSE [self |-> [self EXCEPT !.idx = 0], ret |-> FALSE]

\* Variant: the index is incremented on the completing key as well.
process_input_overrun(self, keycode) ==
    IF self.keys[self.idx + 1] = keycode
    THEN [self |-> [self EXCEPT !.idx = self.idx + 1],
          ret  |-> self.idx = Len(self.keys) - 1]
    ELSE [self |-> [self EXCEPT !.idx = 0], ret |-> FALSE]

\* Variant: a mismatch falls back to the longest prefix of keys that the
\* keys seen so far end with (a re-scan), not to 0.
process_input_fallback(self, keycode) ==
    IF self.keys[self.idx + 1] = keycode
    THEN IF self.idx = Len(self.keys) - 1
         THEN [self |-> self, ret |-> TRUE]
         ELSE [self |-> [self EXCEPT !.idx = self.idx + 1], ret |-> FALSE]
    ELSE LET seen == Append(SubSeq(self.keys, 1, self.idx), keycode)
             fits == {j \in 0..self.idx :
                         SubSeq(seen, Len(seen) - j + 1, Len(seen)) = SubSeq(self.keys, 1, j)}
             best == CHOOSE j \in fits : \A k \in fits : k <= j
         IN [self |-> [self EXCEPT !.idx = best], ret |-> FALSE]

\* KeySequence::process_input(&mut self, keycode) -> bool
process_input(self, keycode) ==
    IF self.keys[self.idx + 1] = keycode
    THEN IF self.idx = Len(self.keys) - 1
         THEN [self |-> self, ret |-> TRUE]
         ELSE [self |-> [self EXCEPT !.idx = self.idx + 1], ret |-> FALSE]
    ELSE [self |-> [self EXCEPT !.idx = 0], ret |-> FALSE]

\* One recorded call: the index before it, the key code, what it returned and
\* the index after it.
Call(self, keycode) ==
    LET r == process_input(self, keycode) IN
    [before |-> self.idx, keycode |-> keycode, ret |-> r.ret, after |-> r.self.idx]

(***************************************************************************)
(* Initial states                                                          *)
(***************************************************************************)
InitOS ==
    /\ \E theme \in Themes : table = [id \in Ids |-> SystemImage(theme, id)]
    /\ handles = << >>
    /\ nextHandle = 1

InitCommon ==
    /\ InitOS
    /\ file_cursor = None
    /\ cursor = None
    /\ control_flow = "Poll"
    /\ event = "None"
    /\ install = None
    /\ reverts = << >>
    /\ loaded = None
    /\ calls = << >>

(***************************************************************************)
(* Spec: main()                                                            *)
(***************************************************************************)
\* The key codes the platform delivers: the letters of the unlock sequence
\* and one key that is not part of it.
KeyCodes == {DefaultKeys[i] : i \in DOMAIN DefaultKeys} \cup {"X"}

Init ==
    /\ InitCommon
    /\ pc = "start"
    /\ unlock_sequence = KeySequence_default

\* What a call that makes a Cursor is remembered by: the function, what the
\* OS reported to it, its result and the handle of the Cursor it returned.
Loaded(by, outcome, r) ==
    [by |-> by, outcome |-> outcome, result |-> r.result,
     handle |-> IF r.value = None THEN 0 ELSE r.value[1].handle]

\* main.rs 8-9: Cursor::from_file("normal.cur").unwrap()
FromFile ==
    /\ pc = "start"
    /\ \E outcome \in FileOutcomes :
         LET r == from_file(OS, "normal.cur", outcome) IN
         /\ loaded' = Some(Loaded("from_file", outcome, r))
         /\ table' = r.os.table
         /\ handles' = r.os.handles
         /\ nextHandle' = r.os.next
         /\ file_cursor' = r.value
         /\ pc' = IF r.result = "Ok" THEN "loaded" ELSE "panicked"
    /\ UNCHANGED <<cursor, install, reverts>>
    /\ UNCHANGED keyVars

\* What a replace_system call that returned is remembered by: the kind, the
\* image the slot held when it was called, the image and the handle of the
\* replacement, the handle the returned value holds and what SetSystemCursor
\* returned.
Installed(os, self, kind, r) ==
    [kind   |-> kind,
     prior  |-> os.table[as_id(kind)],
     image  |-> os.handles[self.handle],
     handle |-> self.handle,
     kept   |-> r.value[1].cursor.handle,
     set    |-> r.set]

\* main.rs 10: .replace_system(CursorKind::Normal); self is moved in and is
\* gone when the call ends.
ReplaceSystem ==
    /\ pc = "loaded"
    /\ \E loadOk \in BOOLEAN, copyOk \in BOOLEAN, setOk \in BOOLEAN :
         LET r == replace_system(OS, file_cursor[1], "Normal", loadOk, copyOk, setOk) IN
         /\ table' = r.os.table
         /\ handles' = r.os.handles
         /\ nextHandle' = r.os.next
         /\ cursor' = r.value
         /\ install' = IF r.result = "Ok"
                       THEN Some(Installed(OS, file_cursor[1], "Normal", r))
                       ELSE None
         /\ pc' = IF r.result = "Ok" THEN "installed" ELSE "panicked"
    /\ file_cursor' = None
    /\ UNCHANGED reverts
    /\ UNCHANGED keyVars
    /\ UNCHANGED loaded

\* The drop of main's `cursor`: Drop::drop runs and the value is gone.
DropCursor ==
    \E setOk \in BOOLEAN :
        LET d == drop(OS, cursor[1], setOk) IN
        /\ table' = d.os.table
        /\ handles' = d.os.handles
        /\ nextHandle' = d.os.next
        /\ reverts' = reverts \o d.rets
        /\ cursor' = None

\* main.rs 12-16: EventLoop::new() and the hidden window; unwrap() panics when
\* the window cannot be built, and the unwinding of main drops `cursor`.
BuildWindow ==
    /\ pc = "installed"
    /\ pc' = "running"
    /\ UNCHANGED <<file_cursor, cursor, install, reverts>>
    /\ UNCHANGED osVars
    /\ UNCHANGED keyVars
    /\ UNCHANGED loaded

BuildWindowFails ==
    /\ pc = "installed"
    /\ DropCursor
    /\ pc' = "panicked"
    /\ UNCHANGED <<file_cursor, install>>
    /\ UNCHANGED keyVars
    /\ UNCHANGED loaded

\* Variant: the closure drops the result of process_input.
KeyPressed_never_exits ==
    /\ pc = "running"
    /\ \E keycode \in KeyCodes :
         LET r == process_input(unlock_sequence, keycode) IN
         /\ unlock_sequence' = r.self
         /\ calls' = <<Call(unlock_sequence, keycode)>>
    /\ event' = "Pressed"
    /\ UNCHANGED <<pc, file_cursor, cursor, install, reverts, control_flow>>
    /\ UNCHANGED osVars
    /\ UNCHANGED loaded

\* main.rs 27-37: a key event with a known key code, in state Pressed.
KeyPressed ==
    /\ pc = "running"
    /\ \E keycode \in KeyCodes :
         LET r == process_input(unlock_sequence, keycode) IN
         /\ unlock_sequence' = r.self
         /\ control_flow' = IF r.ret THEN "Exit" ELSE control_flow
         /\ calls' = <<Call(unlock_sequence, keycode)>>
    /\ event' = "Pressed"
    /\ UNCHANGED <<pc, file_cursor, cursor, install, reverts>>
    /\ UNCHANGED osVars
    /\ UNCHANGED loaded

\* main.rs 27-37 and 41: a key event in state Released, a key event without a
\* virtual key code, and every event that is no device key event.
OtherEvents == {"Released", "NoKeycode", "Other"}

\* Variant: the state of a key event is not looked at, so a release is fed to
\* process_input like a press.
OtherEvent_feeds_releases ==
    /\ pc = "running"
    /\ \E e \in OtherEvents :
         /\ event' = e
         /\ IF e = "Released"
            THEN \E keycode \in KeyCodes :
                   LET r == process_input(unlock_sequence, keycode) IN
                   /\ unlock_sequence' = r.self
                   /\ control_flow' = IF r.ret THEN "Exit" ELSE control_flow
                   /\ calls' = <<Call(unlock_sequence, keycode)>>
            ELSE UNCHANGED <<unlock_sequence, control_flow, calls>>
    /\ UNCHANGED <<pc, file_cursor, cursor, install, reverts>>
    /\ UNCHANGED osVars
    /\ UNCHANGED loaded

OtherEvent ==
    /\ pc = "running"
    /\ \E e \in OtherEvents : event' = e
    /\ UNCHANGED <<pc, file_cursor, cursor, install, reverts>>
    /\ UNCHANGED <<unlock_sequence, control_flow, calls>>
    /\ UNCHANGED osVars
    /\ UNCHANGED loaded

\* main.rs 38-40: the loop ends because the closure asked for ControlFlow::Exit.
LoopDestroyed ==
    /\ pc = "running"
    /\ control_flow = "Exit"
    /\ event' = "LoopDestroyed"
    /\ pc' = "destroyed"
    /\ UNCHANGED <<file_cursor, cursor, install, reverts>>
    /\ UNCHANGED <<unlock_sequence, control_flow, calls>>
    /\ UNCHANGED osVars
    /\ UNCHANGED loaded

\* main.rs 38-40: the platform shuts the loop down without the closure having
\* asked for it.
LoopDestroyedOther ==
    /\ pc = "running"
    /\ control_flow # "Exit"
    /\ event' = "LoopDestroyed"
    /\ pc' = "destroyed"
    /\ UNCHANGED <<file_cursor, cursor, install, reverts>>
    /\ UNCHANGED <<unlock_sequence, control_flow, calls>>
    /\ UNCHANGED osVars
    /\ UNCHANGED loaded

\* main.rs 20, 39: the closure owns `cursor` (moved in); when run() lets go of
\* the closure the cursor is dropped, and the process exits.
DropClosure ==
    /\ pc = "destroyed"
    /\ DropCursor
    /\ pc' = "exited"
    /\ UNCHANGED <<file_cursor, install>>
    /\ UNCHANGED keyVars
    /\ UNCHANGED loaded

Next ==
    \/ FromFile
    \/ ReplaceSystem
    \/ BuildWindow
    \/ BuildWindowFails
    \/ KeyPressed
    \/ OtherEvent
    \/ LoopDestroyed
    \/ LoopDestroyedOther
    \/ DropClosure

Spec == Init /\ [][Next]_vars

\* Once the closure has set ControlFlow::Exit the event loop ends: it
\* delivers LoopDestroyed, lets go of the closure and exits the process.
SpecLive == Spec /\ WF_vars(LoopDestroyed) /\ WF_vars(DropClosure)

(***************************************************************************)
(* SpecCursor: a client of the cursor module                               *)
(* from_file(path), replace_system(kind) for any kind, any number of       *)
(* explicit revert() calls on the live value, then its drop.               *)
(***************************************************************************)
InitCursor ==
    /\ InitCommon
    /\ pc = "c_start"
    /\ unlock_sequence = KeySequence_default

CFromFile ==
    /\ pc = "c_start"
    /\ \E path \in Paths, outcome \in FileOutcomes :
         LET r == from_file(OS, path, outcome) IN
         /\ loaded' = Some(Loaded("from_file", outcome, r))
         /\ table' = r.os.table
         /\ handles' = r.os.handles
         /\ nextHandle' = r.os.next
         /\ file_cursor' = r.value
         /\ pc' = IF r.result = "Ok" THEN "c_loaded"
                  ELSE IF r.result = "Err" THEN "c_err" ELSE "c_panicked"
    /\ UNCHANGED <<cursor, install, reverts>>
    /\ UNCHANGED keyVars

\* Cursor::load_system(kind) called by the client: the Cursor it returns is a
\* Cursor like the one from_file returns.
CLoadSystem ==
    /\ pc = "c_start"
    /\ \E kind \in CursorKind, loadOk \in BOOLEAN, copyOk \in BOOLEAN :
         LET r == load_system(OS, kind, loadOk, copyOk) IN
         /\ loaded' = Some(Loaded("load_system",
                                  IF loadOk /\ copyOk THEN "ok" ELSE "error", r))
         /\ table' = r.os.table
         /\ handles' = r.os.handles
         /\ nextHandle' = r.os.next
         /\ file_cursor' = r.value
         /\ pc' = IF r.result = "Ok" THEN "c_loaded" ELSE "c_panicked"
    /\ UNCHANGED <<cursor, install, reverts>>
    /\ UNCHANGED keyVars

\* A Cursor that goes out of scope without being installed: Cursor has no
\* Drop implementation, so nothing is done to its handle.
CDropFile ==
    /\ pc = "c_loaded"
    /\ file_cursor' = None
    /\ pc' = "c_done"
    /\ UNCHANGED <<cursor, install, reverts>>
    /\ UNCHANGED osVars
    /\ UNCHANGED keyVars
    /\ UNCHANGED loaded

CReplaceSystem ==
    /\ pc = "c_loaded"
    /\ \E kind \in CursorKind, loadOk \in BOOLEAN, copyOk \in BOOLEAN, setOk \in BOOLEAN :
         LET r == replace_system(OS, file_cursor[1], kind, loadOk, copyOk, setOk) IN
         /\ table' = r.os.table
         /\ handles' = r.os.handles
         /\ nextHandle' = r.os.next
         /\ cursor' = r.value
         /\ install' = IF r.result = "Ok"
                       THEN Some(Installed(OS, file_cursor[1], kind, r))
                       ELSE None
         /\ pc' = IF r.result = "Ok" THEN "c_installed" ELSE "c_panicked"
    /\ file_cursor' = None
    /\ UNCHANGED reverts
    /\ UNCHANGED keyVars
    /\ UNCHANGED loaded

\* An explicit cursor.revert() on the live value.
CRevert ==
    /\ pc = "c_installed"
    /\ Len(reverts) < MaxReverts
    /\ \E setOk \in BOOLEAN :
         LET r == revert(OS, cursor[1], setOk) IN
         /\ table' = r.os.table
         /\ handles' = r.os.handles
         /\ nextHandle' = r.os.next
         /\ reverts' = Append(reverts, r.ret)
         /\ cursor' = Some(r.self)
    /\ UNCHANGED <<pc, file_cursor, install>>
    /\ UNCHANGED keyVars
    /\ UNCHANGED loaded

\* The live value goes out of scope.
CDrop ==
    /\ pc = "c_installed"
    /\ DropCursor
    /\ pc' = "c_done"
    /\ UNCHANGED <<file_cursor, install>>
    /\ UNCHANGED keyVars
    /\ UNCHANGED loaded

NextCursor ==
    \/ CFromFile
    \/ CLoadSystem
    \/ CDropFile
    \/ CReplaceSystem
    \/ CRevert
    \/ CDrop

SpecCursor == InitCursor /\ [][NextCursor]_vars

(***************************************************************************)
(* SpecKeySeq: process_input over bounded streams of key codes             *)
(***************************************************************************)
\* The target sequences and the key codes fed to them.
Targets      == {<<"A", "B", "C">>, <<"A", "B", "A", "B", "C">>}
TestKeyCodes == {"A", "B", "C", "X"}

InitKeySeq ==
    /\ table = [id \in Ids |-> SystemImage("stock", id)]
    /\ handles = << >>
    /\ nextHandle = 1
    /\ file_cursor = None
    /\ cursor = None
    /\ control_flow = "Poll"
    /\ event = "None"
    /\ install = None
    /\ reverts = << >>
    /\ loaded = None
    /\ calls = << >>
    /\ pc = "k_feed"
    /\ \E keys \in Targets : unlock_sequence = [keys |-> keys, idx |-> 0]

KProcessInput ==
    /\ pc = "k_feed"
    /\ Len(calls) < MaxInput
    /\ \E keycode \in TestKeyCodes :
         /\ unlock_sequence' = process_input(unlock_sequence, keycode).self
         /\ calls' = Append(calls, Call(unlock_sequence, keycode))
    /\ UNCHANGED <<pc, file_cursor, cursor, install, reverts, control_flow, event>>
    /\ UNCHANGED osVars
    /\ UNCHANGED loaded

NextKeySeq == KProcessInput

SpecKeySeq == InitKeySeq /\ [][NextKeySeq]_vars

\* What a recorded call reported, in the words of the design: a full match
\* is the call returning true; a partial match is the index moving one
\* forward; no match is the index going to 0.
MatchResult(c) ==
    IF c.ret THEN "Complete"
    ELSE IF c.after = c.before + 1 THEN "Partial"
    ELSE IF c.after = 0 THEN "NoMatch"
    ELSE "Other"

Results  == [i \in DOMAIN calls |-> MatchResult(calls[i])]
Consumed == [i \in DOMAIN calls |-> calls[i].keycode]

(***************************************************************************)
(* Claims about the override                                               *)
(***************************************************************************)
SomeRevertSucceeded == \E i \in DOMAIN reverts : reverts[i]
Slot(kind)          == table[as_id(kind)]

\* C1 (Spec): once replace_system has returned in main, revert() has not run
\* while the program is still on its way (window being built, loop running,
\* loop destroyed), and at every end of the program (exit after the unlock
\* match, exit after the loop was destroyed for another reason, unwinding
\* from the failed window build) it has run exactly once and the value is
\* gone; when the OS carried out that revert's write, the slot of the
\* overridden kind does not hold the replacement image.
C1_RevertExactlyOnce ==
    install # None =>
        /\ pc \in {"installed", "running", "destroyed"} =>
               /\ reverts = << >>
               /\ cursor # None
        /\ pc \in {"exited", "panicked"} =>
               /\ Len(reverts) = 1
               /\ cursor = None
               /\ reverts[1] => Slot(install[1].kind) # install[1].image

C1_Witness ==
    /\ pc = "exited"
    /\ control_flow = "Exit"
    /\ install # None
    /\ install[1].set
    /\ reverts = <<TRUE>>
    /\ Slot("Normal") # FileImage("normal.cur")

\* C2 (SpecCursor): for every kind and every replacement, once
\* replace_system(kind) has returned and a revert() whose write the OS carried
\* out has run, the slot of that kind holds the image it held immediately
\* before replace_system was called.
C2_RoundTrip ==
    (install # None /\ SomeRevertSucceeded) =>
        Slot(install[1].kind) = install[1].prior

C2_Witness ==
    /\ install # None
    /\ install[1].set
    /\ install[1].kind = "SizeAll"
    /\ install[1].image = FileImage("other.cur")
    /\ cursor # None
    /\ reverts = <<TRUE>>
    /\ Slot("SizeAll") = SystemImage("scheme", OCR_SIZEALL)

\* C3 (SpecCursor): a revert() that follows a revert() whose write the OS
\* carried out (an explicit call, or the one made by the drop) changes
\* neither the system cursor table nor the set of live handles.
C3_RevertIdempotent ==
    [][(Len(reverts') = Len(reverts) + 1 /\ SomeRevertSucceeded)
          => (table' = table /\ handles' = handles)]_vars

C3_Witness ==
    /\ install # None
    /\ install[1].set
    /\ Len(reverts) = 2
    /\ reverts[1]
    /\ cursor = None
    /\ pc = "c_done"

\* C10 as claimed (SpecCursor): whenever the ReplacedCursor is alive, and the
\* OS carried out the installing write, the slot of its kind holds the
\* replacement image, also after an explicit revert().
C10_OverrideWhileAlive ==
    (cursor # None /\ install[1].set) =>
        Slot(install[1].kind) = install[1].image

\* C10 as amended (SpecCursor): whenever the ReplacedCursor is alive, the OS
\* carried out the installing write, and no revert() on it has yet been
\* carried out, the slot of its kind holds the replacement image.
C10_OverrideUntilReverted ==
    (cursor # None /\ install[1].set /\ ~SomeRevertSucceeded) =>
        Slot(install[1].kind) = install[1].image

C10_Witness ==
    /\ cursor # None
    /\ install[1].set
    /\ install[1].kind = "Hand"
    /\ reverts = <<FALSE>>
    /\ Slot("Hand") = FileImage("normal.cur")

(***************************************************************************)
(* Claims about the recognizer                                             *)
(***************************************************************************)
Keys == unlock_sequence.keys
N    == Len(Keys)

\* The calls i+1 .. i+n consumed the key codes `codes`.
ConsumedAt(i, codes) ==
    /\ Len(calls) >= i + Len(codes)
    /\ SubSeq(Consumed, i + 1, i + Len(codes)) = codes

ResultsAt(i, n) == SubSeq(Results, i + 1, i + n)

\* What consuming the whole target from index 0 reports.
FullRun == [j \in 1..N |-> IF j < N THEN "Partial" ELSE "Complete"]

\* C4 as claimed (SpecKeySeq): a call that reports a full match leaves the
\* index at 0, and over target [A,B,C] the input [A,B,C,A,B,C] yields
\* [Partial,Partial,Complete,Partial,Partial,Complete].
C4_CompleteResets ==
    /\ \A i \in DOMAIN calls : calls[i].ret => calls[i].after = 0
    /\ (Keys = <<"A", "B", "C">> /\ ConsumedAt(0, <<"A", "B", "C", "A", "B", "C">>)) =>
           ResultsAt(0, 6) = <<"Partial", "Partial", "Complete",
                               "Partial", "Partial", "Complete">>

\* C5 (SpecKeySeq): every call that consumes a key code different from
\* keys[idx] returns false and leaves the index at 0, and when the whole
\* target is consumed right after it the results are Partial up to a
\* Complete on its last key; over target [A,B,C], [A,B,X,A,B,C] yields
\* [Partial,Partial,NoMatch,Partial,Partial,Complete].
C5_HardResetAndResume ==
    /\ \A i \in DOMAIN calls :
           Keys[calls[i].before + 1] # calls[i].keycode =>
               /\ MatchResult(calls[i]) = "NoMatch"
               /\ ConsumedAt(i, Keys) => ResultsAt(i, N) = FullRun
    /\ (Keys = <<"A", "B", "C">> /\ ConsumedAt(0, <<"A", "B", "X", "A", "B", "C">>)) =>
           ResultsAt(0, 6) = <<"Partial", "Partial", "NoMatch",
                               "Partial", "Partial", "Complete">>

C5_Witness ==
    /\ Keys = <<"A", "B", "C">>
    /\ Consumed = <<"A", "B", "X", "A", "B", "C">>
    /\ calls[3].before = 2
    /\ calls[3].after = 0
    /\ calls[6].ret

\* C6 as claimed (SpecKeySeq): over target [A,B,C] the input [A,A,B,C]
\* yields [Partial,Partial,Partial,Complete].
C6_RepeatedLeadCompletes ==
    (Keys = <<"A", "B", "C">> /\ ConsumedAt(0, <<"A", "A", "B", "C">>)) =>
        ResultsAt(0, 4) = <<"Partial", "Partial", "Partial", "Complete">>

\* C6 as amended (SpecKeySeq): over target [A,B,C] the input [A,A,B,C]
\* yields [Partial,NoMatch,NoMatch,NoMatch]: the second A resets the index
\* to 0 and is not taken as a new first key, so no full match is reported on
\* the final C.
C6_RepeatedLeadResets ==
    (Keys = <<"A", "B", "C">> /\ ConsumedAt(0, <<"A", "A", "B", "C">>)) =>
        /\ ResultsAt(0, 4) = <<"Partial", "NoMatch", "NoMatch", "NoMatch">>
        /\ \A i \in 1..4 : ~calls[i].ret

C6_Witness ==
    /\ Keys = <<"A", "B", "C">>
    /\ Consumed = <<"A", "A", "B", "C">>
    /\ unlock_sequence.idx = 0

\* C7 (SpecKeySeq): a call returns true if and only if the index before it
\* was N-1 and the key code equals the last key of the target.
C7_FullMatchExactlyAtCompletion ==
    \A i \in DOMAIN calls :
        calls[i].ret <=> (calls[i].before = N - 1 /\ calls[i].keycode = Keys[N])

C7_Witness ==
    /\ Len(calls) = MaxInput
    /\ \E i \in DOMAIN calls : calls[i].ret
    /\ \E i \in DOMAIN calls : calls[i].before = N - 1 /\ ~calls[i].ret
    /\ \E i \in DOMAIN calls :
           calls[i].before < N - 1 /\ calls[i].keycode = Keys[N] /\ ~calls[i].ret

\* C8 (Spec): the index of main's recognizer, which starts as
\* KeySequence::default(), is always between 0 and N-1, so keys[idx] is
\* inside the sequence at the start of every call.
C8_IndexInBounds ==
    /\ N >= 1
    /\ unlock_sequence.idx \in 0..(N - 1)
    /\ unlock_sequence.idx + 1 \in DOMAIN Keys

C8_Witness ==
    /\ pc = "running"
    /\ event = "Pressed"
    /\ control_flow = "Exit"
    /\ unlock_sequence.idx = N - 1

\* C9 (SpecKeySeq): over target [A,B,A,B,C] the input [A,B,A,B,A,B,C] resets
\* the index to 0 on the fifth key and no call of it returns true.
C9_OverlapNotDetected ==
    (Keys = <<"A", "B", "A", "B", "C">>
       /\ ConsumedAt(0, <<"A", "B", "A", "B", "A", "B", "C">>)) =>
        /\ calls[5].before = 4
        /\ calls[5].after = 0
        /\ \A i \in 1..7 : ~calls[i].ret

C9_Witness ==
    /\ Keys = <<"A", "B", "A", "B", "C">>
    /\ Consumed = <<"A", "B", "A", "B", "A", "B", "C">>
    /\ ResultsAt(0, 7) = <<"Partial", "Partial", "Partial", "Partial",
                           "NoMatch", "NoMatch", "NoMatch">>

(***************************************************************************)
(* Claims about failures, ownership and the controller                     *)
(***************************************************************************)
\* The system cursor table as it was when the program started.
InitialTable(theme) == [id \in Ids |-> SystemImage(theme, id)]
Untouched           == \E theme \in Themes : table = InitialTable(theme)

\* C11 (Spec): when the OS reports file-not-found to Cursor::from_file, it
\* returns Err (no panic inside it, no Cursor), main's unwrap() ends the
\* program, and on that path there was no replace_system and no revert: the
\* system cursor table is as it was at the start, no handle was made and no
\* ReplacedCursor exists.
C11_MissingFileInstallsNothing ==
    (loaded # None /\ loaded[1].outcome = "not_found") =>
        /\ loaded[1].result = "Err"
        /\ file_cursor = None
        /\ pc = "panicked"
        /\ cursor = None
        /\ install = None
        /\ reverts = << >>
        /\ handles = << >>
        /\ Untouched

C11_Witness ==
    /\ loaded # None
    /\ loaded[1].by = "from_file"
    /\ loaded[1].outcome = "not_found"
    /\ loaded[1].result = "Err"
    /\ pc = "panicked"

\* C12 as claimed (Spec): a replace_system call in which the OS refused the
\* write to the slot does not return: there is no state in which the call
\* has returned a ReplacedCursor although SetSystemCursor reported failure.
C12_InstallFailureIsFatal ==
    install # None => install[1].set

\* C13 (SpecCursor): the image behind the handle the returned ReplacedCursor
\* retains is the image the slot held when replace_system was called, and
\* the retained handle is not the handle of the replacement (stated while
\* the retained handle has not been given back to the OS by a revert).
C13_CaptureBeforeOverwrite ==
    (cursor # None /\ ~SomeRevertSucceeded) =>
        /\ cursor[1].cursor.handle \in DOMAIN handles
        /\ handles[cursor[1].cursor.handle] = install[1].prior
        /\ cursor[1].cursor.handle # install[1].handle

C13_Witness ==
    /\ cursor # None
    /\ reverts = << >>
    /\ install[1].set
    /\ install[1].kind = "Ibeam"
    /\ install[1].image = FileImage("normal.cur")
    /\ Slot("Ibeam") = FileImage("normal.cur")
    /\ handles[cursor[1].cursor.handle] = SystemImage("stock", OCR_IBEAM)

\* Ownership: a handle is owned by the Rust value that holds it, a Cursor not
\* yet installed or the Cursor inside the ReplacedCursor (its only Cursor
\* field); it is live while the OS has not destroyed it.
OwnedByCursor(h)   == file_cursor # None /\ file_cursor[1].handle = h
OwnedByOverride(h) == cursor # None /\ cursor[1].cursor.handle = h
Owned(h)           == OwnedByCursor(h) \/ OwnedByOverride(h)
Live(h)            == h \in DOMAIN handles

\* The override is in effect: the value is alive, the OS carried out the
\* installing write and no revert has been carried out.
OverrideInEffect == cursor # None /\ install[1].set /\ ~SomeRevertSucceeded

C15_ReleasedWhenOwnerGone ==
    install = None => \A h \in DOMAIN handles : Owned(h)

\* A step of the running loop that delivered an event and changed something.
Delivered == pc = "running" /\ vars' # vars
KeyStep   == Delivered /\ event' = "Pressed"
OtherStep == Delivered /\ event' # "Pressed"

\* C16 (SpecLive): on a key press the closure sets ControlFlow::Exit if and
\* only if process_input returned true on that press; the press of the last
\* key of the unlock sequence at index N-1, which is where the sequence
\* pressed contiguously from index 0 arrives, sets it; and once it is set the
\* program eventually exits with revert() having run (and the slot back to
\* its prior image when the OS carried the revert out).
C16_UnlockLeadsToExit ==
    /\ [][KeyStep =>
            /\ (control_flow' = "Exit") <=> (control_flow = "Exit" \/ calls'[1].ret)
            /\ (unlock_sequence.idx = N - 1 /\ calls'[1].keycode = Keys[N]) =>
                   control_flow' = "Exit"]_vars
    /\ (pc = "running" /\ control_flow = "Exit") ~>
           (/\ pc = "exited"
            /\ cursor = None
            /\ Len(reverts) = 1
            /\ reverts[1] => Slot("Normal") = install[1].prior)

C16_Witness ==
    /\ pc = "exited"
    /\ control_flow = "Exit"
    /\ calls # << >>
    /\ calls[1].ret
    /\ calls[1].before = 12
    /\ calls[1].keycode = "O"
    /\ install[1].set
    /\ reverts = <<TRUE>>

\* C17 (Spec): an event that is no key press with a known key code (a key
\* release, a key event without key code, any other event, LoopDestroyed)
\* changes neither the recognizer nor the control flow and makes no
\* process_input call; a key press makes exactly one call, on the recognizer
\* as it was, and the recognizer afterwards is that call's result.
C17_OnlyPressesDrive ==
    [][/\ OtherStep =>
            /\ unlock_sequence' = unlock_sequence
            /\ control_flow' = control_flow
            /\ calls' = calls
       /\ KeyStep =>
            /\ Len(calls') = 1
            /\ calls'[1].before = unlock_sequence.idx
            /\ unlock_sequence' =
                   process_input(unlock_sequence, calls'[1].keycode).self]_vars

C17_Witness ==
    /\ pc = "running"
    /\ event = "Released"
    /\ unlock_sequence.idx = 7
    /\ calls # << >>
    /\ calls[1].before = 6
    /\ control_flow = "Poll"

\* C18 (SpecCursor): when load_system fails inside replace_system (the Cursor
\* to install had been made, and the call panicked), nothing was written to
\* the system cursor table, so every slot holds its pre-install image, and
\* no ReplacedCursor exists.
C18_FailedCaptureLeavesTable ==
    (pc = "c_panicked" /\ loaded # None /\ loaded[1].result = "Ok") =>
        /\ Untouched
        /\ cursor = None
        /\ install = None
        /\ reverts = << >>

C18_Witness ==
    /\ pc = "c_panicked"
    /\ loaded # None
    /\ loaded[1].by = "from_file"
    /\ loaded[1].result = "Ok"
    /\ file_cursor = None
    /\ Live(loaded[1].handle)

\* C19 (SpecCursor): as_id maps distinct kinds to distinct identifiers, and
\* whatever replace_system(k) and the revert() calls after it did, every slot
\* other than k's holds the image it held at the start (before
\* replace_system returned: every slot).
C19_OneSlotOnly ==
    /\ \A k1 \in CursorKind : \A k2 \in CursorKind :
           k1 # k2 => as_id(k1) # as_id(k2)
    /\ \E theme \in Themes : \A id \in Ids :
           (install = None \/ id # as_id(install[1].kind)) =>
               table[id] = SystemImage(theme, id)

C19_Witness ==
    /\ install # None
    /\ install[1].kind = "Hand"
    /\ install[1].set
    /\ Len(reverts) = 3
    /\ reverts[2]
    /\ cursor = None
    /\ Slot("Hand") = install[1].prior

\* C20 as claimed (SpecKeySeq): whenever a call returns true, the last N key
\* codes consumed, that call's included, are the target sequence in order.
C20_NoFalseUnlock ==
    \A i \in DOMAIN calls :
        calls[i].ret =>
            /\ i >= N
            /\ SubSeq(Consumed, i - N + 1, i) = Keys

====
